---- MODULE Spec2Model ----
(***************************************************************************)
(* Model of the GitHub Issue Assistant front end (src/frontend/app.py).    *)
(*                                                                         *)
(* One run of main() is one UI cycle: Streamlit re-executes the script    *)
(* from the top on every user interaction, with the value of each button  *)
(* True in exactly the run caused by its click.                            *)
(*                                                                         *)
(* Text is modelled as sequences of one-character strings, so that        *)
(* startswith, "in", split, replace and title are computed on characters. *)
(* JSON values are tagged records [t, v].                                  *)
(***************************************************************************)
EXTENDS Integers, Sequences, FiniteSets, TLC

VARIABLES
    session_state,  \* st.session_state: [repo_url, issue_number]
    repo_input,     \* the text the "Repository URL" widget holds
    issue_input,    \* the number the "Issue Number" widget holds
    event,          \* the user interaction that caused the last run of main()
    cycle,          \* what the last run of main() did: validation, requests, screen
    tab,            \* the tab of the result view the browser shows
    analysis,       \* renderer: the AnalysisResult drawn as input
    band,           \* renderer: result of get_priority_class
    decoration,     \* renderer: result of the type decoration
    rendered        \* renderer: result of display_analysis

vars == <<session_state, repo_input, issue_input, event, cycle, tab,
          analysis, band, decoration, rendered>>

uiVars == <<session_state, repo_input, issue_input, event, cycle, tab>>

renderVars == <<analysis, band, decoration, rendered>>

(***************************************************************************)
(* Bounds of the model.                                                    *)
(***************************************************************************)
\* largest issue number the user types by hand (the examples add their own)
MaxIssue == 2

\* longest priority_score text drawn as an input of the renderer
MaxPriorityLen == 2

\* longest suggested_labels list drawn as an input of the renderer
MaxLabels == 1

(***************************************************************************)
(* Text helpers (Python str operations used by the program).               *)
(***************************************************************************)
\* s.startswith(p)
StartsWith(s, p) ==
    /\ Len(s) >= Len(p)
    /\ SubSeq(s, 1, Len(p)) = p

\* p in s
Contains(s, p) ==
    \E i \in 1..(Len(s) - Len(p) + 1) : SubSeq(s, i, i + Len(p) - 1) = p

Lower == <<"a","b","c","d","e","f","g","h","i","j","k","l","m","n","o","p","q","r","s","t","u","v","w","x","y","z">>

Upper == <<"A","B","C","D","E","F","G","H","I","J","K","L","M","N","O","P","Q","R","S","T","U","V","W","X","Y","Z">>

IsLower(c) == \E i \in 1..26 : Lower[i] = c

IsUpper(c) == \E i \in 1..26 : Upper[i] = c

IsCased(c) == IsLower(c) \/ IsUpper(c)

ToUpper(c) == IF IsLower(c) THEN Upper[CHOOSE i \in 1..26 : Lower[i] = c] ELSE c

ToLower(c) == IF IsUpper(c) THEN Lower[CHOOSE i \in 1..26 : Upper[i] = c] ELSE c

\* s.replace("_", " ")
ReplaceUnderscore(s) == [i \in 1..Len(s) |-> IF s[i] = "_" THEN " " ELSE s[i]]

\* s.title(): a cased character is upper-cased after an uncased one (or at the
\* start) and lower-cased after a cased one
Title(s) ==
    [i \in 1..Len(s) |->
        IF i = 1 \/ ~IsCased(s[i - 1]) THEN ToUpper(s[i]) ELSE ToLower(s[i])]

\* the whitespace str.split() separates on; the inputs only contain the blank
IsSpace(c) == c = " "

RECURSIVE SplitFrom(_, _, _)
\* s.split(): the maximal runs of non-whitespace characters, in order
SplitFrom(s, i, cur) ==
    IF i > Len(s)
    THEN IF cur = <<>> THEN <<>> ELSE <<cur>>
    ELSE IF IsSpace(s[i])
         THEN IF cur = <<>>
              THEN SplitFrom(s, i + 1, <<>>)
              ELSE <<cur>> \o SplitFrom(s, i + 1, <<>>)
         ELSE SplitFrom(s, i + 1, Append(cur, s[i]))

Split(s) == SplitFrom(s, 1, <<>>)

RECURSIVE Join(_, _)
\* sep.join(xs)
Join(sep, xs) ==
    IF xs = <<>> THEN <<>>
    ELSE IF Len(xs) = 1 THEN xs[1]
    ELSE xs[1] \o sep \o Join(sep, Tail(xs))

(***************************************************************************)
(* JSON values.                                                            *)
(***************************************************************************)
JNull == [t |-> "null", v |-> <<>>]

JStr(s) == [t |-> "str", v |-> s]

JArr(xs) == [t |-> "arr", v |-> xs]

JObj(f) == [t |-> "obj", v |-> f]

\* Python truth value of a parsed JSON value: None, "", [] and {} are falsy
Truthy(j) ==
    CASE j.t = "null" -> FALSE
      [] j.t = "str"  -> j.v # <<>>
      [] j.t = "arr"  -> j.v # <<>>
      [] j.t = "obj"  -> DOMAIN j.v # {}

HasKey(j, k) == j.t = "obj" /\ k \in DOMAIN j.v

(***************************************************************************)
(* Input validation, main() lines 450-456.                                 *)
(***************************************************************************)
S_http == <<"h","t","t","p">>

S_github == <<"g","i","t","h","u","b",".","c","o","m">>

\* variant: the check of line 454 is missing
validate_WithoutDomainRule(repo_url) ==
    IF repo_url = <<>> THEN "MissingUrl"
    ELSE IF ~StartsWith(repo_url, S_http) THEN "InvalidScheme"
    ELSE "ok"

validate(repo_url) ==
    IF repo_url = <<>> THEN "MissingUrl"
    ELSE IF ~StartsWith(repo_url, S_http) THEN "InvalidScheme"
    ELSE IF ~Contains(repo_url, S_github) THEN "NotRepository"
    ELSE "ok"

(***************************************************************************)
(* The analysis service as seen by requests.post (line 202): either the    *)
(* call raises, or it returns a response with a status and a body.         *)
(* An exception is its set of classes (its class and all its bases) and    *)
(* the text str(e) gives.  In requests.exceptions, ConnectTimeout derives  *)
(* from both ConnectionError and Timeout; ReadTimeout only from Timeout.   *)
(***************************************************************************)
ConnectionRefused ==
    [classes |-> {"ConnectionError", "RequestException", "Exception"},
     desc |-> <<"r","e","f","u","s","e","d">>]

ConnectTimeout ==
    [classes |-> {"ConnectTimeout", "ConnectionError", "Timeout",
                  "RequestException", "Exception"},
     desc |-> <<"c","o","n","n","e","c","t">>]

ReadTimeout ==
    [classes |-> {"ReadTimeout", "Timeout", "RequestException", "Exception"},
     desc |-> <<"r","e","a","d">>]

TooManyRedirects ==
    [classes |-> {"TooManyRedirects", "RequestException", "Exception"},
     desc |-> <<"r","e","d","i","r","e","c","t","s">>]

\* raised by response.json() on a body that is not JSON
JSONDecodeError ==
    [classes |-> {"JSONDecodeError", "RequestException", "Exception"},
     desc |-> <<"E","x","p","e","c","t","i","n","g"," ","v","a","l","u","e">>]

\* raised by .get on a parsed body that is not a dict
AttributeError ==
    [classes |-> {"AttributeError", "Exception"},
     desc |-> <<"n","o"," ","g","e","t">>]

NetRaise(e) == [tag |-> "raise", exc |-> e, status |-> 0, parsed |-> FALSE, json |-> JNull]

NetResponse(status, parsed, json) ==
    [tag |-> "response", exc |-> [classes |-> {}, desc |-> <<>>],
     status |-> status, parsed |-> parsed, json |-> json]

HTTP_OK == 200

S_unknown_error == <<"U","n","k","n","o","w","n"," ","e","r","r","o","r">>

(***************************************************************************)
(* analyze_issue, lines 188-237.                                           *)
(***************************************************************************)
ErrorMsg(kind, detail) == [kind |-> kind, detail |-> detail]

\* response.json(), lines 212 and 214
response_json(net) ==
    IF net.parsed
    THEN [tag |-> "return", val |-> net.json, exc |-> [classes |-> {}, desc |-> <<>>]]
    ELSE [tag |-> "raise", val |-> JNull, exc |-> JSONDecodeError]

\* variant: the detail of the body is not looked up
error_detail_AlwaysUnknown(body) == JStr(S_unknown_error)

\* response.json().get("detail", "Unknown error"), line 214, on a dict
error_detail(body) ==
    IF "detail" \in DOMAIN body.v THEN body.v["detail"] ELSE JStr(S_unknown_error)

\* the body of the try statement, lines 202-216
TryBody(net) ==
    IF net.tag = "raise"
    THEN [tag |-> "raise", exc |-> net.exc, ret |-> JNull, errors |-> <<>>]
    ELSE LET body == response_json(net) IN
         IF net.status = HTTP_OK
         THEN IF body.tag = "raise"
              THEN [tag |-> "raise", exc |-> body.exc, ret |-> JNull, errors |-> <<>>]
              ELSE [tag |-> "return", exc |-> body.exc, ret |-> body.val, errors |-> <<>>]
         ELSE IF body.tag = "raise"
              THEN [tag |-> "raise", exc |-> body.exc, ret |-> JNull, errors |-> <<>>]
              ELSE IF body.val.t # "obj"
                   THEN [tag |-> "raise", exc |-> AttributeError, ret |-> JNull, errors |-> <<>>]
                   ELSE [tag |-> "return", exc |-> body.exc, ret |-> JNull,
                         errors |-> <<ErrorMsg("Rejected", error_detail(body.val))>>]

\* variant: the Timeout clause comes before the ConnectionError clause
ExceptClauses_TimeoutFirst ==
    << [class |-> "Timeout",         kind |-> "TimedOut"],
       [class |-> "ConnectionError", kind |-> "Unreachable"],
       [class |-> "Exception",       kind |-> "Unexpected"] >>

\* the except clauses in the order of lines 218, 232, 235
ExceptClauses ==
    << [class |-> "ConnectionError", kind |-> "Unreachable"],
       [class |-> "Timeout",         kind |-> "TimedOut"],
       [class |-> "Exception",       kind |-> "Unexpected"] >>

\* the first except clause whose class the exception is an instance of, 0 if none
MatchingClause(exc) ==
    IF \E i \in 1..Len(ExceptClauses) : ExceptClauses[i].class \in exc.classes
    THEN CHOOSE i \in 1..Len(ExceptClauses) :
            /\ ExceptClauses[i].class \in exc.classes
            /\ \A j \in 1..(i - 1) : ExceptClauses[j].class \notin exc.classes
    ELSE 0

\* what the handler of a caught exception shows, lines 219-237
HandlerError(kind, exc) ==
    IF kind = "Unexpected"
    THEN ErrorMsg(kind, JStr(exc.desc))
    ELSE ErrorMsg(kind, JNull)

analyze_issue(repo_url, issue_number, net) ==
    LET sent == <<[repo_url |-> repo_url, issue_number |-> issue_number]>>
        body == TryBody(net)
    IN  IF body.tag = "return"
        THEN [ret |-> body.ret, errors |-> body.errors, sent |-> sent, raised |-> FALSE]
        ELSE LET c == MatchingClause(body.exc) IN
             IF c = 0
             THEN [ret |-> JNull, errors |-> <<>>, sent |-> sent, raised |-> TRUE]
             ELSE [ret |-> JNull,
                   errors |-> <<HandlerError(ExceptClauses[c].kind, body.exc)>>,
                   sent |-> sent, raised |-> FALSE]

(***************************************************************************)
(* get_priority_class, lines 240-248.                                      *)
(***************************************************************************)
\* xs[0] of a Python list
Index0(xs) ==
    IF xs = <<>>
    THEN [tag |-> "raise", exc |-> "IndexError", val |-> <<>>]
    ELSE [tag |-> "return", exc |-> "", val |-> xs[1]]

get_priority_class(priority_score) ==
    LET score == Index0(Split(priority_score)) IN
    IF score.tag = "raise"
    THEN [tag |-> "raise", exc |-> score.exc, val |-> ""]
    ELSE IF score.val \in {<<"4">>, <<"5">>}
         THEN [tag |-> "return", exc |-> "", val |-> "priority-high"]
         ELSE IF score.val \in {<<"2">>, <<"3">>}
              THEN [tag |-> "return", exc |-> "", val |-> "priority-medium"]
              ELSE [tag |-> "return", exc |-> "", val |-> "priority-low"]

(***************************************************************************)
(* json.dumps / json.loads, lines 353 and 365 (and the reader of the       *)
(* exported file).  A string is written between quotes with the quote and  *)
(* the backslash escaped; an object is written as its members in order.    *)
(***************************************************************************)
Quote == "\""

Backslash == "\\"

RECURSIVE Escape_QuoteOnly(_)
\* variant: the backslash is written unescaped
Escape_QuoteOnly(s) ==
    IF s = <<>> THEN <<>>
    ELSE IF Head(s) = Quote
         THEN <<Backslash, Head(s)>> \o Escape_QuoteOnly(Tail(s))
         ELSE <<Head(s)>> \o Escape_QuoteOnly(Tail(s))

RECURSIVE Escape(_)
Escape(s) ==
    IF s = <<>> THEN <<>>
    ELSE IF Head(s) \in {Quote, Backslash}
         THEN <<Backslash, Head(s)>> \o Escape(Tail(s))
         ELSE <<Head(s)>> \o Escape(Tail(s))

RECURSIVE Unescape(_)
Unescape(s) ==
    IF s = <<>> THEN <<>>
    ELSE IF Head(s) = Backslash /\ Len(s) >= 2
         THEN <<s[2]>> \o Unescape(Tail(Tail(s)))
         ELSE <<Head(s)>> \o Unescape(Tail(s))

EncodeStr(s) == <<Quote>> \o Escape(s) \o <<Quote>>

DecodeStr(e) == Unescape(SubSeq(e, 2, Len(e) - 1))

\* the order in which the members of an object are written
KeyOrder ==
    <<"summary", "type", "priority_score", "suggested_labels",
      "potential_impact", "detail">>

RECURSIVE json_dumps(_)
json_dumps(j) ==
    CASE j.t = "null" -> [t |-> "null", text |-> <<"n","u","l","l">>]
      [] j.t = "str"  -> [t |-> "str", text |-> EncodeStr(j.v)]
      [] j.t = "arr"  -> [t |-> "arr",
                          text |-> [i \in 1..Len(j.v) |-> json_dumps(j.v[i])]]
      [] j.t = "obj"  ->
            LET keys == SelectSeq(KeyOrder, LAMBDA k : k \in DOMAIN j.v)
            IN [t |-> "obj",
                text |-> [i \in 1..Len(keys) |->
                            [key |-> keys[i], value |-> json_dumps(j.v[keys[i]])]]]

RECURSIVE json_loads(_)
json_loads(d) ==
    CASE d.t = "null" -> JNull
      [] d.t = "str"  -> JStr(DecodeStr(d.text))
      [] d.t = "arr"  -> JArr([i \in 1..Len(d.text) |-> json_loads(d.text[i])])
      [] d.t = "obj"  ->
            JObj([k \in {d.text[i].key : i \in 1..Len(d.text)} |->
                    json_loads((CHOOSE m \in {d.text[i] : i \in 1..Len(d.text)} :
                                    m.key = k).value)])

(***************************************************************************)
(* display_analysis, lines 258-374.                                        *)
(***************************************************************************)
L_Bug == <<"B","u","g">>

L_FeatureRequest == <<"F","e","a","t","u","r","e"," ","R","e","q","u","e","s","t">>

L_Documentation == <<"D","o","c","u","m","e","n","t","a","t","i","o","n">>

L_Question == <<"Q","u","e","s","t","i","o","n">>

L_Other == <<"O","t","h","e","r">>

\* variant: the lookup has no default and an unmapped label gets no icon
type_emoji_NoDefault(issue_type) ==
    CASE issue_type = L_Bug            -> "bug"
      [] issue_type = L_FeatureRequest -> "sparkles"
      [] issue_type = L_Documentation  -> "books"
      [] issue_type = L_Question       -> "question"
      [] issue_type = L_Other          -> "pushpin"
      [] OTHER                         -> "none"

\* type_emoji.get(issue_type, pushpin), lines 277-284
type_emoji(issue_type) ==
    CASE issue_type = L_Bug            -> "bug"
      [] issue_type = L_FeatureRequest -> "sparkles"
      [] issue_type = L_Documentation  -> "books"
      [] issue_type = L_Question       -> "question"
      [] issue_type = L_Other          -> "pushpin"
      [] OTHER                         -> "pushpin"

\* analysis["type"].replace("_", " ").title(), lines 276 and 337
type_label(type) == Title(ReplaceUnderscore(type))

\* the decorated type of the overview, lines 275-285
type_decoration(type) ==
    [label |-> type_label(type), emoji |-> type_emoji(type_label(type))]

RequiredKeys ==
    {"type", "priority_score", "suggested_labels", "summary", "potential_impact"}

NoViews == [overview |-> <<>>, report |-> <<>>, raw |-> <<>>]

Raise(exc) == [tag |-> "raise", exc |-> exc, views |-> NoViews]

\* the first statement of display_analysis that raises, if any
DisplayException(a) ==
    IF a.t # "obj" THEN "TypeError"
    ELSE IF ~(RequiredKeys \subseteq DOMAIN a.v) THEN "KeyError"
    ELSE IF a.v["type"].t # "str" \/ a.v["priority_score"].t # "str"
         THEN "AttributeError"
    ELSE IF get_priority_class(a.v["priority_score"].v).tag = "raise"
         THEN get_priority_class(a.v["priority_score"].v).exc
    ELSE IF a.v["suggested_labels"].t # "arr"
            \/ \E i \in 1..Len(a.v["suggested_labels"].v) :
                    a.v["suggested_labels"].v[i].t # "str"
         THEN "TypeError"
    ELSE ""

display_analysis(a) ==
    IF DisplayException(a) # ""
    THEN Raise(DisplayException(a))
    ELSE
    LET f == a.v
        labels == [i \in 1..Len(f["suggested_labels"].v) |-> f["suggested_labels"].v[i].v]
        overview ==
            [type_label      |-> type_decoration(f["type"].v).label,
             emoji           |-> type_decoration(f["type"].v).emoji,
             priority_metric |-> Index0(Split(f["priority_score"].v)).val,
             priority_class  |-> get_priority_class(f["priority_score"].v).val,
             label_count     |-> Len(labels),
             summary         |-> f["summary"],
             priority_text   |-> f["priority_score"].v,
             labels          |-> labels,
             impact          |-> f["potential_impact"]]
        report ==
            [summary     |-> f["summary"],
             type_label  |-> type_label(f["type"].v),
             priority    |-> f["priority_score"].v,
             labels_text |-> Join(<<",", " ">>, labels),
             impact      |-> f["potential_impact"]]
    IN [tag |-> "ok", exc |-> "",
        views |-> [overview |-> overview, report |-> report, raw |-> json_dumps(a)]]

(***************************************************************************)
(* main, lines 377-470: one run of the script.                             *)
(*   ss              st.session_state before the run                       *)
(*   repo_url        what st.text_input returns (line 427)                 *)
(*   issue_number    what st.number_input returns (line 436)               *)
(*   example_clicked 0, or the number of the quick-start button clicked    *)
(*   analyze_button  what the "Analyze Issue" button returns (line 446)    *)
(*   net             what the analysis service does if it is called        *)
(***************************************************************************)
Examples ==
    << [repo_url |-> <<"h","t","t","p","s",":","/","/","g","i","t","h","u","b",".","c","o","m","/","f","a","c","e","b","o","o","k","/","r","e","a","c","t">>,
        issue_number |-> 28324],
       [repo_url |-> <<"h","t","t","p","s",":","/","/","g","i","t","h","u","b",".","c","o","m","/","v","e","r","c","e","l","/","n","e","x","t",".","j","s">>,
        issue_number |-> 60000],
       [repo_url |-> <<"h","t","t","p","s",":","/","/","g","i","t","h","u","b",".","c","o","m","/","m","i","c","r","o","s","o","f","t","/","v","s","c","o","d","e">>,
        issue_number |-> 200000] >>

NothingShown == [tag |-> "none", exc |-> "", views |-> NoViews]

\* variant: a clicked example is not stored
prefill_Ignored(ss, example_clicked) == ss

\* lines 416-418: a clicked example overwrites the session values
prefill(ss, example_clicked) ==
    IF example_clicked # 0 THEN Examples[example_clicked] ELSE ss

main(ss, repo_url, issue_number, example_clicked, analyze_button, net) ==
    LET ss1 == prefill(ss, example_clicked)
    IN  IF ~analyze_button
        THEN [session_state |-> ss1, validation |-> "none", errors |-> <<>>,
              sent |-> <<>>, shown |-> NothingShown]
        ELSE IF validate(repo_url) # "ok"
        THEN [session_state |-> ss1, validation |-> validate(repo_url),
              errors |-> <<ErrorMsg(validate(repo_url), JNull)>>,
              sent |-> <<>>, shown |-> NothingShown]
        ELSE LET r == analyze_issue(repo_url, issue_number, net) IN
             [session_state |-> [repo_url |-> repo_url, issue_number |-> issue_number],
              validation |-> "ok",
              errors |-> r.errors,
              sent |-> r.sent,
              shown |-> IF r.raised THEN Raise("propagated")
                        ELSE IF Truthy(r.ret) THEN display_analysis(r.ret)
                        ELSE NothingShown]

(***************************************************************************)
(* Inputs of the UI model.                                                 *)
(***************************************************************************)
S_path == <<"/","a","/","b">>

S_colon_slashes == <<":","/","/">>

UrlInputs ==
    { <<>>,
      <<" ">>,
      S_http \o S_colon_slashes \o S_github \o S_path,
      S_http \o <<"s">> \o S_colon_slashes \o S_github \o S_path,
      <<"f","t","p">> \o S_colon_slashes \o S_github \o S_path,
      S_http \o <<"s">> \o S_colon_slashes \o <<"e","x",".","c","o","m">> \o S_path,
      S_http \o S_github,
      S_http \o <<"x">>,
      S_github \o S_path }
    \cup {Examples[i].repo_url : i \in 1..Len(Examples)}

\* st.number_input(min_value=1, step=1), line 436
IssueInputs == 1..MaxIssue \cup {Examples[i].issue_number : i \in 1..Len(Examples)}

S_rate_limited == <<"r","a","t","e"," ","l","i","m","i","t","e","d">>

Result(summary, type, priority_score, suggested_labels, potential_impact) ==
    JObj([summary |-> JStr(summary),
          type |-> JStr(type),
          priority_score |-> JStr(priority_score),
          suggested_labels |->
              JArr([i \in 1..Len(suggested_labels) |-> JStr(suggested_labels[i])]),
          potential_impact |-> JStr(potential_impact)])

GoodResult ==
    Result(<<"s">>, <<"b","u","g">>, <<"5"," ","-"," ","c">>, <<(<<"b","u","g">>)>>, <<"i">>)

EmptyObject == JObj([k \in {} |-> JNull])

Bodies ==
    { GoodResult,
      EmptyObject,
      JNull,
      JArr(<<>>),
      JObj([detail |-> JStr(S_rate_limited)]),
      JObj([summary |-> JStr(<<"s">>)]) }

Statuses == {HTTP_OK, 500}

NetOutcomes ==
    {NetRaise(e) : e \in {ConnectionRefused, ConnectTimeout, ReadTimeout, TooManyRedirects}}
    \cup {NetResponse(st, FALSE, JNull) : st \in Statuses}
    \cup {NetResponse(st, TRUE, b) : st \in Statuses, b \in Bodies}

\* the service is not called in this run
NoNet == [tag |-> "none", exc |-> [classes |-> {}, desc |-> <<>>],
          status |-> 0, parsed |-> FALSE, json |-> JNull]

(***************************************************************************)
(* The UI as a state machine: each action is one user interaction and the  *)
(* run of main() it causes.                                                *)
(***************************************************************************)
Pending == [tag |-> "pending", exc |-> "", val |-> ""]

NoDecoration == [label |-> <<>>, emoji |-> ""]

NotRendered == [tag |-> "pending", exc |-> "", views |-> NoViews]

RenderIdle ==
    /\ analysis = JNull
    /\ band = Pending
    /\ decoration = NoDecoration
    /\ rendered = NotRendered

\* the effect of one run of main() on the session state and the screen
Run(kind, example_clicked, analyze_button, net) ==
    LET m == main(session_state, repo_input', issue_input', example_clicked,
                  analyze_button, net)
    IN  /\ session_state' = m.session_state
        /\ cycle' = [validation |-> m.validation, errors |-> m.errors,
                     sent |-> m.sent, shown |-> m.shown,
                     net |-> IF m.sent = <<>> THEN NoNet ELSE net]
        /\ event' = [kind |-> kind, example |-> example_clicked]
        /\ tab' = 1
        /\ UNCHANGED renderVars

\* first load of the page: lines 410-413 initialise the session state
Init ==
    /\ session_state = [repo_url |-> <<>>, issue_number |-> 1]
    /\ repo_input = <<>>
    /\ issue_input = 1
    /\ event = [kind |-> "load", example |-> 0]
    /\ cycle = [validation |-> "none", errors |-> <<>>, sent |-> <<>>,
                shown |-> NothingShown, net |-> NoNet]
    /\ tab = 1
    /\ RenderIdle

\* the user types a repository URL: the script reruns with no button clicked
EditUrl(u) ==
    /\ u # repo_input
    /\ repo_input' = u
    /\ issue_input' = issue_input
    /\ Run("edit", 0, FALSE, NoNet)

\* the user changes the issue number
EditIssue(n) ==
    /\ n # issue_input
    /\ issue_input' = n
    /\ repo_input' = repo_input
    /\ Run("edit", 0, FALSE, NoNet)

\* a quick-start button, lines 393-418.  The widgets are created with the new
\* session values as their defaults; whether a keyed widget that already holds
\* a value takes the new default depends on the Streamlit version.
ClickExample(i) ==
    /\ \/ /\ repo_input' = Examples[i].repo_url
          /\ issue_input' = Examples[i].issue_number
       \/ /\ repo_input' = repo_input
          /\ issue_input' = issue_input
    /\ Run("example", i, FALSE, NoNet)

\* the "Analyze Issue" button, lines 446-470
Submit(net) ==
    /\ repo_input' = repo_input
    /\ issue_input' = issue_input
    /\ Run("submit", 0, TRUE, net)

\* a download button of the result view (lines 354 and 368): a click reruns
\* the script with every button of main() unclicked
Download ==
    /\ cycle.shown.tag = "ok"
    /\ tab \in {2, 3}
    /\ repo_input' = repo_input
    /\ issue_input' = issue_input
    /\ Run("download", 0, FALSE, NoNet)

\* switching between the tabs of st.tabs (line 269) happens in the browser
\* and does not rerun the script
SwitchView(t) ==
    /\ cycle.shown.tag = "ok"
    /\ t # tab
    /\ tab' = t
    /\ UNCHANGED <<session_state, repo_input, issue_input, event, cycle>>
    /\ UNCHANGED renderVars

Next ==
    \/ \E u \in UrlInputs : EditUrl(u)
    \/ \E n \in IssueInputs : EditIssue(n)
    \/ \E i \in 1..Len(Examples) : ClickExample(i)
    \/ \E net \in NetOutcomes : Submit(net)
    \/ Download
    \/ \E t \in 1..3 : SwitchView(t)

Spec == Init /\ [][Next]_vars

(***************************************************************************)
(* The renderer on its own: an AnalysisResult is drawn from bounded sets   *)
(* and get_priority_class, the type decoration and display_analysis are    *)
(* applied to it.                                                          *)
(***************************************************************************)
SeqsUpTo(S, n) == UNION {[1..k -> S] : k \in 0..n}

PriorityAlphabet == {"1", "2", "3", "4", "5", "x", " ", "-"}

PriorityInputs == SeqsUpTo(PriorityAlphabet, MaxPriorityLen)

TypeInputs ==
    { <<"b","u","g">>,
      <<"f","e","a","t","u","r","e","_","r","e","q","u","e","s","t">>,
      <<"d","o","c","u","m","e","n","t","a","t","i","o","n">>,
      <<"q","u","e","s","t","i","o","n">>,
      <<"o","t","h","e","r">>,
      <<"s","e","c","u","r","i","t","y">>,
      <<"B","U","G">>,
      <<"f","e","a","t","u","r","e","-","r","e","q","u","e","s","t">>,
      <<>> }

LabelNames == { <<"b","u","g">>, <<"u",","," ","i">> }

LabelInputs == SeqsUpTo(LabelNames, MaxLabels)

SummaryInputs == { <<"s">>, <<"a", Quote, Backslash, "n">> }

AnalysisInputs ==
    { Result(s, t, p, l, <<"i">>) :
        s \in SummaryInputs, t \in TypeInputs, p \in PriorityInputs, l \in LabelInputs }

InitRender ==
    /\ session_state = [repo_url |-> <<>>, issue_number |-> 1]
    /\ repo_input = <<>>
    /\ issue_input = 1
    /\ event = [kind |-> "load", example |-> 0]
    /\ cycle = [validation |-> "none", errors |-> <<>>, sent |-> <<>>,
                shown |-> NothingShown, net |-> NoNet]
    /\ tab = 1
    /\ analysis \in AnalysisInputs
    /\ band = Pending
    /\ decoration = NoDecoration
    /\ rendered = NotRendered

BandStep ==
    /\ band = Pending
    /\ band' = get_priority_class(analysis.v["priority_score"].v)
    /\ UNCHANGED <<analysis, decoration, rendered>>
    /\ UNCHANGED uiVars

DecorateStep ==
    /\ band # Pending
    /\ decoration = NoDecoration
    /\ decoration' = type_decoration(analysis.v["type"].v)
    /\ UNCHANGED <<analysis, band, rendered>>
    /\ UNCHANGED uiVars

RenderStep ==
    /\ decoration # NoDecoration
    /\ rendered = NotRendered
    /\ rendered' = display_analysis(analysis)
    /\ UNCHANGED <<analysis, band, decoration>>
    /\ UNCHANGED uiVars

NextRender ==
    \/ BandStep
    \/ DecorateStep
    \/ RenderStep

SpecRender == InitRender /\ [][NextRender]_vars

(***************************************************************************)
(* Properties.                                                             *)
(***************************************************************************)
Submitted == event.kind = "submit"

Kinds(errors) == [i \in 1..Len(errors) |-> errors[i].kind]

S_http_scheme == S_http \o S_colon_slashes

S_https_scheme == S_http \o <<"s">> \o S_colon_slashes

\* the validation rules as the specification states them, first failure wins
StatedValidation(url) ==
    IF url = <<>> THEN "MissingUrl"
    ELSE IF ~(StartsWith(url, S_http_scheme) \/ StartsWith(url, S_https_scheme))
         THEN "InvalidScheme"
    ELSE IF ~Contains(url, S_github) THEN "NotRepository"
    ELSE "ok"

\* C1: on a submit, the validator accepts the URL iff it is non-empty, starts
\* with exactly http:// or https:// and contains github.com; the rules apply
\* in that order and the first failing rule gives the reported reason.
C1_ValidatorFollowsStatedRules ==
    Submitted => cycle.validation = StatedValidation(repo_input)

\* the conditions of lines 450, 452 and 454 taken one by one
SomeRuleFails(url) ==
    \/ url = <<>>
    \/ ~StartsWith(url, S_http)
    \/ ~Contains(url, S_github)

CallFailed == cycle.sent # <<>> /\ (cycle.net.tag = "raise" \/ ~cycle.net.parsed)

IsConnectionFailure == cycle.net.tag = "raise" /\ "ConnectionError" \in cycle.net.exc.classes

IsTimeout == cycle.net.tag = "raise" /\ "Timeout" \in cycle.net.exc.classes

\* the exception analyze_issue handles in a cycle whose call failed
FailureOf(n) == IF n.tag = "raise" THEN n.exc ELSE JSONDecodeError

OneErrorNoResult(kind, detail) ==
    /\ cycle.errors = <<ErrorMsg(kind, detail)>>
    /\ cycle.shown = NothingShown

\* C3 as stated: every failure of the network call becomes exactly one error
\* kind and no result: a connection failure gives Unreachable, exceeding the
\* timeout gives TimedOut, any other failure (an unparseable body included)
\* gives Unexpected with the failure's description.
C3_TimeoutAlwaysTimedOut ==
    CallFailed =>
        /\ IsConnectionFailure => OneErrorNoResult("Unreachable", JNull)
        /\ IsTimeout => OneErrorNoResult("TimedOut", JNull)
        /\ (~IsConnectionFailure /\ ~IsTimeout) =>
                OneErrorNoResult("Unexpected", JStr(FailureOf(cycle.net).desc))

\* C3 amended: as stated, except that a timeout while connecting is a
\* connection failure and gives Unreachable; TimedOut is given by a timeout
\* that is not a connection failure.
C3_FailuresClassified ==
    CallFailed =>
        /\ IsConnectionFailure => OneErrorNoResult("Unreachable", JNull)
        /\ (IsTimeout /\ ~IsConnectionFailure) => OneErrorNoResult("TimedOut", JNull)
        /\ (~IsConnectionFailure /\ ~IsTimeout) =>
                OneErrorNoResult("Unexpected", JStr(FailureOf(cycle.net).desc))

C3_Witness ==
    /\ Submitted
    /\ cycle.net = NetRaise(ConnectTimeout)
    /\ Kinds(cycle.errors) = <<"Unreachable">>

ErrorResponse == cycle.sent # <<>> /\ cycle.net.tag = "response" /\ cycle.net.status # HTTP_OK

HasDetail(n) == n.parsed /\ HasKey(n.json, "detail")

\* C4 as stated: a non-200 response gives Rejected with the body's detail
\* verbatim, and Rejected("Unknown error") when the body has no detail field
\* or is unparseable.
C4_RejectedEvenIfUnparseable ==
    ErrorResponse =>
        IF HasDetail(cycle.net)
        THEN OneErrorNoResult("Rejected", cycle.net.json.v["detail"])
        ELSE OneErrorNoResult("Rejected", JStr(S_unknown_error))

\* C4 amended: a non-200 response whose body is a JSON object gives Rejected
\* with the body's detail verbatim, or Rejected("Unknown error") when the
\* object has no detail field; a non-200 response whose body is unparseable or
\* is not a JSON object gives Unexpected.
C4_RejectedCarriesDetail ==
    ErrorResponse =>
        IF cycle.net.parsed /\ cycle.net.json.t = "obj"
        THEN IF HasDetail(cycle.net)
             THEN OneErrorNoResult("Rejected", cycle.net.json.v["detail"])
             ELSE OneErrorNoResult("Rejected", JStr(S_unknown_error))
        ELSE /\ Kinds(cycle.errors) = <<"Unexpected">>
             /\ cycle.shown = NothingShown

C4_Witness ==
    /\ Submitted
    /\ cycle.net = NetResponse(500, TRUE, JObj([detail |-> JStr(S_rate_limited)]))
    /\ cycle.errors = <<ErrorMsg("Rejected", JStr(S_rate_limited))>>

\* C5: every submit that passes validation ends with the analysis result or
\* an error message on the screen, whatever the service answered.  (An
\* exception display_analysis raises is drawn by Streamlit as an error box,
\* so a cycle with shown.tag = "raise" is not silent.)
C5_NoSilentEnd ==
    (Submitted /\ cycle.validation = "ok") =>
        \/ cycle.shown # NothingShown
        \/ cycle.errors # <<>>

\* the band the specification gives a priority_score: that of its leading digit
StatedBand(priority_score) ==
    IF priority_score # <<>> /\ priority_score[1] \in {"4", "5"} THEN "priority-high"
    ELSE IF priority_score # <<>> /\ priority_score[1] \in {"2", "3"} THEN "priority-medium"
    ELSE "priority-low"

\* C6: severity banding never fails and is decided by the leading digit of
\* priority_score (4, 5 high; 2, 3 medium; anything else low), whatever
\* follows the digit, and an empty or whitespace-only score bands as low.
C6_BandingTotalByLeadingDigit ==
    band # Pending =>
        /\ band.tag = "return"
        /\ band.val = StatedBand(analysis.v["priority_score"].v)

KnownTypes ==
    { <<"b","u","g">>,
      <<"f","e","a","t","u","r","e","_","r","e","q","u","e","s","t">>,
      <<"d","o","c","u","m","e","n","t","a","t","i","o","n">>,
      <<"q","u","e","s","t","i","o","n">>,
      <<"o","t","h","e","r">> }

\* the fixed label and icon of each known type
StatedDecoration(type) ==
    CASE type = <<"b","u","g">> -> [label |-> L_Bug, emoji |-> "bug"]
      [] type = <<"f","e","a","t","u","r","e","_","r","e","q","u","e","s","t">> ->
            [label |-> L_FeatureRequest, emoji |-> "sparkles"]
      [] type = <<"d","o","c","u","m","e","n","t","a","t","i","o","n">> ->
            [label |-> L_Documentation, emoji |-> "books"]
      [] type = <<"q","u","e","s","t","i","o","n">> ->
            [label |-> L_Question, emoji |-> "question"]
      [] OTHER -> [label |-> L_Other, emoji |-> "pushpin"]

KnownLabels == {StatedDecoration(t).label : t \in KnownTypes}

Decorated == decoration # NoDecoration

BeginsWithDigit(priority_score) ==
    priority_score # <<>> /\ priority_score[1] \in {"1", "2", "3", "4", "5"}

RECURSIVE TotalLen(_)
TotalLen(xs) == IF xs = <<>> THEN 0 ELSE Len(Head(xs)) + TotalLen(Tail(xs))

Range(xs) == {xs[i] : i \in 1..Len(xs)}

HasOutcome(c) == c.shown # NothingShown \/ c.errors # <<>>

\* C9: the outcome of a submission stays the held and displayed outcome in
\* every later cycle that is not a new submission.
C9_OutcomeHeldUntilNextSubmit ==
    [][(HasOutcome(cycle) /\ event'.kind # "submit") =>
            (cycle'.shown = cycle.shown /\ cycle'.errors = cycle.errors)]_vars

\* C10: a cycle caused by a quick-start button overwrites the pending URL and
\* issue number of the session state with the example's values, validates
\* nothing, sends nothing and produces no outcome; a request is sent only in a
\* cycle caused by a submit.
C10_ExampleOnlyPrefills ==
    /\ event.kind = "example" =>
            /\ session_state = Examples[event.example]
            /\ cycle.validation = "none"
            /\ cycle.sent = <<>>
            /\ ~HasOutcome(cycle)
    /\ cycle.sent # <<>> => Submitted

C10_Witness ==
    /\ event = [kind |-> "example", example |-> 2]
    /\ session_state = Examples[2]
    /\ repo_input # Examples[2].repo_url
    /\ cycle.sent = <<>>

====
